---- MODULE Spec2Model ----
(***************************************************************************)
(* Model of the text anonymizer: DataAnonymizer (src/data_anonymizer.py)   *)
(* and the Streamlit front end (src/app.py).                               *)
(*                                                                         *)
(* A text is a sequence of characters; a character is a one-element        *)
(* string.  Offsets are Python offsets (0-based, half-open), so the        *)
(* character at Python index p of t is t[p+1].                             *)
(***************************************************************************)
EXTENDS Integers, Sequences, FiniteSets, TLC

\* ------------------------------------------------------------------------
\* Characters and Python's str predicates
\* ------------------------------------------------------------------------

UpperSeq ==
    <<"A","B","C","D","E","F","G","H","I","J","K","L","M",
      "N","O","P","Q","R","S","T","U","V","W","X","Y","Z">>

LowerSeq ==
    <<"a","b","c","d","e","f","g","h","i","j","k","l","m",
      "n","o","p","q","r","s","t","u","v","w","x","y","z">>

Upper == { UpperSeq[i] : i \in 1..26 }

Lower == { LowerSeq[i] : i \in 1..26 }

Digit == {"0","1","2","3","4","5","6","7","8","9"}

Alpha == Upper \cup Lower

Alnum == Alpha \cup Digit

\* str.split() and str.strip() treat these as whitespace
Space == {" ", "\t", "\n"}

\* The horizontal ellipsis, the one compatibility character of the inputs:
\* NFKC decomposes it into three full stops.
Ellipsis == "U+2026"

LetterIndex(c, letters) == CHOOSE i \in 1..26 : letters[i] = c

LowerOf == [c \in Upper |-> LowerSeq[LetterIndex(c, UpperSeq)]]

UpperOf == [c \in Lower |-> UpperSeq[LetterIndex(c, LowerSeq)]]

ToLower(c) == IF c \in Upper THEN LowerOf[c] ELSE c

ToUpper(c) == IF c \in Lower THEN UpperOf[c] ELSE c

\* text[a:b] for 0 <= a, with Python's clamping of both ends
Slice(t, a, b) ==
    LET hi == IF b > Len(t) THEN Len(t) ELSE b
    IN  IF a >= hi THEN <<>> ELSE SubSeq(t, a + 1, hi)

RECURSIVE Concat(_)
\* ''.join(parts)
Concat(parts) ==
    IF parts = <<>> THEN <<>> ELSE Head(parts) \o Concat(Tail(parts))

RECURSIVE Join(_, _)
\* sep.join(parts)
Join(sep, parts) ==
    IF parts = <<>> THEN <<>>
    ELSE IF Len(parts) = 1 THEN Head(parts)
    ELSE Head(parts) \o sep \o Join(sep, Tail(parts))

IsAlnum(s) == Len(s) > 0 /\ \A i \in 1..Len(s) : s[i] \in Alnum

IsAlpha(s) == Len(s) > 0 /\ \A i \in 1..Len(s) : s[i] \in Alpha

IsUpper(s) ==
    /\ \E i \in 1..Len(s) : s[i] \in Upper
    /\ \A i \in 1..Len(s) : s[i] \notin Lower

IsLower(s) ==
    /\ \E i \in 1..Len(s) : s[i] \in Lower
    /\ \A i \in 1..Len(s) : s[i] \notin Upper

\* str.istitle(): an uppercase letter only after an uncased character, a
\* lowercase letter only after a cased one, and at least one cased character
IsTitle(s) ==
    /\ \E i \in 1..Len(s) : s[i] \in Alpha
    /\ \A i \in 1..Len(s) :
          LET prevCased == i > 1 /\ s[i-1] \in Alpha
          IN  /\ s[i] \in Upper => ~prevCased
              /\ s[i] \in Lower => prevCased

StrLower(s) == [i \in 1..Len(s) |-> ToLower(s[i])]

\* str.title()
StrTitle(s) ==
    [i \in 1..Len(s) |->
        IF i > 1 /\ s[i-1] \in Alpha THEN ToLower(s[i]) ELSE ToUpper(s[i])]

\* str.capitalize()
StrCapitalize(s) ==
    [i \in 1..Len(s) |-> IF i = 1 THEN ToUpper(s[i]) ELSE ToLower(s[i])]

EndsWith(s, suffix) ==
    /\ Len(suffix) <= Len(s)
    /\ SubSeq(s, Len(s) - Len(suffix) + 1, Len(s)) = suffix

StartsWith(s, prefix) ==
    /\ Len(prefix) <= Len(s)
    /\ SubSeq(s, 1, Len(prefix)) = prefix

RECURSIVE Without(_, _)
\* s with every character of chars removed: chained str.replace(c, '')
Without(s, chars) ==
    IF s = <<>> THEN <<>>
    ELSE IF Head(s) \in chars THEN Without(Tail(s), chars)
    ELSE <<Head(s)>> \o Without(Tail(s), chars)

RECURSIVE SplitOn(_, _, _)
\* str.split(sep) for a one-character sep; cur is the piece being read
SplitOn(s, sep, cur) ==
    IF s = <<>> THEN <<cur>>
    ELSE IF Head(s) = sep THEN <<cur>> \o SplitOn(Tail(s), sep, <<>>)
    ELSE SplitOn(Tail(s), sep, Append(cur, Head(s)))

RECURSIVE SplitWords(_, _)
\* str.split(): the maximal runs of non-whitespace characters
SplitWords(s, cur) ==
    IF s = <<>> THEN (IF cur = <<>> THEN <<>> ELSE <<cur>>)
    ELSE IF Head(s) \in Space
         THEN (IF cur = <<>> THEN <<>> ELSE <<cur>>) \o SplitWords(Tail(s), <<>>)
    ELSE SplitWords(Tail(s), Append(cur, Head(s)))

\* str.strip() is empty
IsBlank(s) == \A i \in 1..Len(s) : s[i] \in Space

\* ------------------------------------------------------------------------
\* DataAnonymizer._normalize_text and _preprocess_text
\* ------------------------------------------------------------------------

NfkcChar(c) == IF c = Ellipsis THEN <<".", ".", ".">> ELSE <<c>>

_normalize_text(t) == Concat([i \in 1..Len(t) |-> NfkcChar(t[i])])

PreprocessWord(word) ==
    IF IsUpper(word) /\ Len(word) > 2
    THEN (IF IsAlpha(word) THEN StrTitle(word) ELSE word)
    ELSE IF IsLower(word) /\ Len(word) > 2
    THEN (IF IsAlpha(word) /\ word[1] \in Alpha THEN StrCapitalize(word) ELSE word)
    ELSE word

PreprocessLine(line) ==
    LET words == SplitWords(line, <<>>)
    IN  Join(<<" ">>, [i \in 1..Len(words) |-> PreprocessWord(words[i])])

_preprocess_text(t) ==
    LET lines == SplitOn(t, "\n", <<>>)
    IN  Join(<<"\n">>, [i \in 1..Len(lines) |-> PreprocessLine(lines[i])])

\* ------------------------------------------------------------------------
\* Regular expressions, as Python's re matches them
\* ------------------------------------------------------------------------
\* A pattern is a sequence of elements: the word boundary \b, or a character
\* class with a greedy repetition {lo,hi}.  A negative hi is no upper limit.

WordBoundary == [k |-> "b"]

Rep(cls, lo, hi) == [k |-> "c", cls |-> cls, lo |-> lo, hi |-> hi]

One(cls) == Rep(cls, 1, 1)

Opt(cls) == Rep(cls, 0, 1)

\* \w
WordChar(c) == c \in Alnum \/ c = "_"

\* \b holds at offset pos
AtBoundary(t, pos) ==
    LET before == pos > 0 /\ WordChar(t[pos])
        after  == pos < Len(t) /\ WordChar(t[pos + 1])
    IN  before # after

RECURSIVE RunLen(_, _, _, _)
\* how many characters from offset pos a greedy class repetition takes at most
RunLen(t, pos, cls, hi) ==
    IF hi = 0 \/ pos >= Len(t) \/ t[pos + 1] \notin cls THEN 0
    ELSE 1 + RunLen(t, pos + 1, cls, hi - 1)

RECURSIVE Match(_, _, _, _), TryCount(_, _, _, _, _)
\* The end offset of the match of elems[i..] at offset pos that backtracking
\* finds first (each repetition tried from its longest), or -1.
Match(t, elems, i, pos) ==
    IF i > Len(elems) THEN pos
    ELSE IF elems[i].k = "b"
    THEN (IF AtBoundary(t, pos) THEN Match(t, elems, i + 1, pos) ELSE -1)
    ELSE TryCount(t, elems, i, pos, RunLen(t, pos, elems[i].cls, elems[i].hi))

TryCount(t, elems, i, pos, n) ==
    IF n < elems[i].lo THEN -1
    ELSE LET r == Match(t, elems, i + 1, pos + n)
         IN  IF r # -1 THEN r ELSE TryCount(t, elems, i, pos, n - 1)

\* A pattern with an optional leading group: \b(?:group)?rest.  The group is
\* tried first, and without it only when no match with it exists.
MatchAt(t, pat, pos) ==
    LET with == Match(t, <<WordBoundary>> \o pat.group \o pat.rest, 1, pos)
    IN  IF with # -1 /\ pat.group # <<>> THEN with
        ELSE Match(t, <<WordBoundary>> \o pat.rest, 1, pos)

RECURSIVE FindIter(_, _, _)
\* re.finditer: the leftmost matches from offset pos on, none overlapping
FindIter(t, pat, pos) ==
    IF pos >= Len(t) THEN <<>>
    ELSE LET e == MatchAt(t, pat, pos)
         IN  IF e > pos
             THEN <<[start |-> pos, end |-> e]>> \o FindIter(t, pat, e)
             ELSE FindIter(t, pat, pos + 1)

\* ------------------------------------------------------------------------
\* Entity labels and placeholders
\* ------------------------------------------------------------------------

PER == <<"P","E","R">>

ORG == <<"O","R","G">>

LOC == <<"L","O","C">>

MISC == <<"M","I","S","C">>

EMAIL == <<"E","M","A","I","L">>

PHONE == <<"P","H","O","N","E">>

Bracket(s) == <<"[">> \o s \o <<"]">>

PH_PERSON == Bracket(<<"P","E","R","S","O","N">>)

PH_person == Bracket(<<"p","e","r","s","o","n">>)

PH_Person == Bracket(<<"P","e","r","s","o","n">>)

PH_SURNAME == Bracket(<<"S","U","R","N","A","M","E">>)

PH_ORGANIZATION == Bracket(<<"O","R","G","A","N","I","Z","A","T","I","O","N">>)

PH_LOCATION == Bracket(<<"L","O","C","A","T","I","O","N">>)

PH_UNKNOWN == Bracket(<<"U","N","K","N","O","W","N">>)

\* self.replacement_dict.get(label, '[UNKNOWN]')
replacement_dict(label) ==
    CASE label = PER -> PH_PERSON
      [] label = ORG -> PH_ORGANIZATION
      [] label = LOC -> PH_LOCATION
      [] label = MISC -> Bracket(MISC)
      [] label = EMAIL -> Bracket(EMAIL)
      [] label = PHONE -> Bracket(PHONE)
      [] OTHER -> PH_UNKNOWN

\* An entity without a 'replacement' key carries the empty sequence there.
NoReplacement == <<>>

\* ------------------------------------------------------------------------
\* DataAnonymizer._detect_email and _detect_phone
\* ------------------------------------------------------------------------

\* \b[A-Za-z0-9._%+-]+@[A-Za-z0-9.-]+\.[A-Z|a-z]{2,}\b
email_pattern ==
    [group |-> <<>>,
     rest  |-> << Rep(Alnum \cup {".", "_", "%", "+", "-"}, 1, -1),
                  One({"@"}),
                  Rep(Alnum \cup {".", "-"}, 1, -1),
                  One({"."}),
                  Rep(Alpha \cup {"|"}, 2, -1),
                  WordBoundary >>]

_detect_email(t) ==
    LET ms == FindIter(t, email_pattern, 0)
    IN  [i \in 1..Len(ms) |->
            [entity |-> EMAIL, start |-> ms[i].start, end |-> ms[i].end,
             word |-> Slice(t, ms[i].start, ms[i].end),
             replacement |-> NoReplacement]]

Sep == {"-", "."}

\* (?:\+?\d{1,3}[-.]?)?
CountryGroup == << Opt({"+"}), Rep(Digit, 1, 3), Opt(Sep) >>

\* \d{lo,hi}[-.]?\d{lo,hi}[-.]?\d{lo,hi}\b
Groups(lo, hi) ==
    << Rep(Digit, lo, hi), Opt(Sep), Rep(Digit, lo, hi), Opt(Sep),
       Rep(Digit, lo, hi), WordBoundary >>

phone_patterns ==
    << [group |-> CountryGroup,
        rest  |-> << Opt({"("}), Rep(Digit, 3, 3), Opt({")"}), Opt(Sep),
                     Rep(Digit, 3, 3), Opt(Sep), Rep(Digit, 4, 4),
                     WordBoundary >>],
       [group |-> CountryGroup, rest |-> Groups(2, 4)],
       [group |-> CountryGroup, rest |-> Groups(1, 4)],
       [group |-> CountryGroup, rest |-> Groups(1, 3)],
       [group |-> CountryGroup, rest |-> Groups(1, 2)] >>

\* the matches of one phone pattern that pass the length validation
PhoneMatches(t, pat) ==
    LET ms == FindIter(t, pat, 0)
        ok(m) == Len(Without(Slice(t, m.start, m.end), {"-", ".", "(", ")"})) >= 6
    IN  SelectSeq(ms, ok)

_detect_phone(t) ==
    LET ms == Concat([p \in 1..Len(phone_patterns) |->
                         PhoneMatches(t, phone_patterns[p])])
    IN  [i \in 1..Len(ms) |->
            [entity |-> PHONE, start |-> ms[i].start, end |-> ms[i].end,
             word |-> Slice(t, ms[i].start, ms[i].end),
             replacement |-> Bracket(PHONE)]]


\* ------------------------------------------------------------------------
\* The classifier's response and DataAnonymizer._query_model
\* ------------------------------------------------------------------------

\* entity_group.split('-')[-1] if '-' in entity_group else entity_group
StripPrefix(label) ==
    LET parts == SplitOn(label, "-", <<>>) IN parts[Len(parts)]

\* The shapes of response.json().  "list" is a flat list of items, "nested" a
\* list whose first element is the list of items, "dict" an object with an
\* 'entities' key, "dict_no_entities" an object without one, "scalar" a
\* string, number or null.
Shapes == {"list", "nested", "dict", "dict_no_entities", "scalar"}

\* What _query_model does with a decoded response: the entity list it
\* returns, or the ValueError it raises.
NormalizeResponse(result) ==
    CASE result.shape = "nested" ->
            [raises |-> FALSE, entities |-> result.items]
      [] result.shape = "list" ->
            [raises |-> FALSE, entities |-> result.items]
      [] result.shape = "dict" ->
            [raises |-> FALSE, entities |-> result.items]
      [] result.shape = "dict_no_entities" ->
            [raises |-> FALSE, entities |-> <<>>]
      [] OTHER ->
            [raises |-> TRUE, entities |-> <<>>]

\* ------------------------------------------------------------------------
\* The placeholder chosen for a classifier entity
\* ------------------------------------------------------------------------

location_suffixes ==
    { <<"b","u","r","g">>, <<"b","e","r","g">>, <<"t","o","w","n">>,
      <<"c","i","t","y">>, <<"v","i","l","l","e">>, <<"p","o","l","i","s">>,
      <<"g","r","a","d">>, <<"a","b","a","d">>, <<"p","u","r">>,
      <<"n","a","g","a","r">>, <<"p","o","r","e">>, <<"s","t","a","n">>,
      <<"l","a","n","d">>, <<"i","a">>, <<"y","a">> }

location_prefixes ==
    { <<"n","e","w">>, <<"o","l","d">>, <<"n","o","r","t","h">>,
      <<"s","o","u","t","h">>, <<"e","a","s","t">>, <<"w","e","s","t">>,
      <<"u","p","p","e","r">>, <<"l","o","w","e","r">>, <<"p","o","r","t">>,
      <<"f","o","r","t">>, <<"s","a","i","n","t">>, <<"s","a","n">>,
      <<"s","a","n","t","a">> }

\* all the suffixes of the six groups of surname_patterns
surname_patterns ==
    { <<"o","v">>, <<"e","v">>, <<"s","k","i">>, <<"s","k","y">>,
      <<"o","v","a">>, <<"e","v","a">>,
      <<"y","a","n">>, <<"i","a","n">>, <<"j","i","n">>, <<"c","h","e","n">>,
      <<"l","i">>, <<"w","a","n","g">>,
      <<"s","e","n">>, <<"s","s","o","n">>, <<"d","o","t","t","i","r">>,
      <<"d","U+221A","U+2265","t","t","i","r">>,
      <<"z","a","d","e","h">>, <<"o","g","l","u">>, <<"p","o","u","r">>,
      <<"r","a","j">>, <<"k","u","m","a","r">>, <<"s","i","n","g","h">>,
      <<"p","a","t","e","l">>, <<"s","h","a","r","m","a">>,
      <<"e","z">>, <<"e","s">>, <<"o","s">>, <<"a","s">>, <<"i","s">> }

is_surname(word) ==
    LET lowered == StrLower(word)
    IN  \E pattern \in surname_patterns : EndsWith(lowered, pattern)

\* anonymize_text: the surface filter of a classifier entity
SkipWord(word) == Len(word) < 2 \/ ~IsAlnum(Without(word, {"-"}))

\* anonymize_text: the placeholder of a PER entity
PersonReplacement(word) ==
    IF IsUpper(word) /\ IsAlpha(word) THEN PH_PERSON
    ELSE IF IsLower(word) THEN PH_person
    ELSE IF IsTitle(word)
         THEN (IF is_surname(word) THEN PH_SURNAME ELSE PH_Person)
    ELSE PH_PERSON

\* anonymize_text: the placeholder of a classifier entity
LibReplacement(entity_group, word) ==
    CASE entity_group = PER -> PersonReplacement(word)
      [] entity_group = ORG ->
            IF IsUpper(word) /\ IsAlpha(word) THEN PH_PERSON
            ELSE IF IsTitle(word) /\ IsAlpha(word) THEN PH_Person
            ELSE IF ~IsAlpha(word) THEN PH_ORGANIZATION
            ELSE replacement_dict(entity_group)
      [] entity_group = LOC ->
            IF IsUpper(word) /\ IsAlpha(word) THEN PH_PERSON
            ELSE IF IsTitle(word) /\ IsAlpha(word)
                 THEN (IF \/ \E s \in location_suffixes : EndsWith(StrLower(word), s)
                          \/ \E s \in location_prefixes : StartsWith(StrLower(word), s)
                       THEN PH_LOCATION ELSE PH_Person)
            ELSE replacement_dict(entity_group)
      [] OTHER -> replacement_dict(entity_group)

\* app.py main: the placeholder of a classifier entity
UiReplacement(entity_group, word) ==
    IF entity_group = PER
    THEN (IF IsUpper(word) THEN PH_PERSON
          ELSE IF IsLower(word) THEN PH_person
          ELSE IF IsTitle(word) THEN PH_Person
          ELSE PH_PERSON)
    ELSE replacement_dict(entity_group)

Entity(group, item, replacement) ==
    [entity |-> group, start |-> item.start, end |-> item.end,
     word |-> item.word, replacement |-> replacement]

RECURSIVE LibEntities(_)
\* anonymize_text: the classifier entities kept, each with its placeholder
LibEntities(ner_results) ==
    IF ner_results = <<>> THEN <<>>
    ELSE LET item  == Head(ner_results)
             group == StripPrefix(item.label)
         IN  (IF ~item.dict \/ SkipWord(item.word) THEN <<>>
              ELSE <<Entity(group, item, LibReplacement(group, item.word))>>)
             \o LibEntities(Tail(ner_results))

RECURSIVE UiEntities(_)
\* app.py main: the classifier entities, each with its placeholder
UiEntities(ner_results) ==
    IF ner_results = <<>> THEN <<>>
    ELSE LET item  == Head(ner_results)
             group == StripPrefix(item.label)
         IN  (IF ~item.dict THEN <<>>
              ELSE <<Entity(group, item, UiReplacement(group, item.word))>>)
             \o UiEntities(Tail(ner_results))

\* app.py main: every email and phone entity gets its 'replacement' set
WithReplacement(entities) ==
    [k \in 1..Len(entities) |->
        [entities[k] EXCEPT !.replacement = replacement_dict(entities[k].entity)]]

RECURSIVE InsertByStart(_, _)
InsertByStart(x, sorted) ==
    IF sorted = <<>> THEN <<x>>
    ELSE IF Head(sorted).start > x.start
    THEN <<Head(sorted)>> \o InsertByStart(x, Tail(sorted))
    ELSE <<x>> \o sorted

RECURSIVE SortByStartDesc(_)
\* list.sort(key=start, reverse=True): descending, equal starts keep their order
SortByStartDesc(entities) ==
    IF entities = <<>> THEN <<>>
    ELSE InsertByStart(Head(entities), SortByStartDesc(Tail(entities)))

\* the entity's placeholder as the rewrite loop reads it
ReplacementOf(e) ==
    IF e.replacement = NoReplacement THEN replacement_dict(e.entity)
    ELSE e.replacement


\* ------------------------------------------------------------------------
\* The rewrite loops
\* ------------------------------------------------------------------------

RECURSIVE ExpandLeft(_, _)
\* while start > 0 and anonymized_text[start-1].isalnum(): start -= 1
ExpandLeft(buf, start) ==
    IF start > 0 /\ buf[start] \in Alnum THEN ExpandLeft(buf, start - 1)
    ELSE start

RECURSIVE ExpandRight(_, _)
\* while end < len(anonymized_text) and anonymized_text[end].isalnum(): end += 1
ExpandRight(buf, end) ==
    IF end < Len(buf) /\ buf[end + 1] \in Alnum THEN ExpandRight(buf, end + 1)
    ELSE end

\* anonymize_text reads anonymized_text[start-1] and anonymized_text[end]
\* unguarded: an index past the end of the buffer raises IndexError
LibIndexError(buf, e) == e.start > Len(buf) \/ e.end > Len(buf)

\* One iteration of anonymize_text's loop, for a buffer the entity's offsets
\* index: the extent looked at, whether it is replaced, and the new buffer.
\* from is, per character of the buffer, the offset in the original text it
\* was copied from, or -1 for a character of a placeholder.
LibStep(buf, from, e) ==
    LET start == ExpandLeft(buf, e.start)
        end   == ExpandRight(buf, e.end)
        atBoundaries ==
            /\ start = 0 \/ buf[start] \notin Alnum
            /\ end = Len(buf) \/ buf[end + 1] \notin Alnum
        word_to_replace == Slice(buf, start, end)
        replaced ==
            atBoundaries /\ IsAlnum(word_to_replace) /\ Len(word_to_replace) > 1
        replacement == ReplacementOf(e)
    IN  [applied |-> replaced, lo |-> start, hi |-> end,
         text |-> IF replaced
                  THEN Slice(buf, 0, start) \o replacement \o Slice(buf, end, Len(buf))
                  ELSE buf,
         from |-> IF replaced
                  THEN Slice(from, 0, start) \o [k \in 1..Len(replacement) |-> -1]
                       \o Slice(from, end, Len(from))
                  ELSE from]

\* One iteration of the loop of app.py: the slices are taken at the entity's
\* own offsets, and Python clamps a slice to the buffer.
UiStep(buf, from, e) ==
    LET replacement == ReplacementOf(e)
    IN  [applied |-> TRUE, lo |-> e.start, hi |-> e.end,
         text |-> Slice(buf, 0, e.start) \o replacement \o Slice(buf, e.end, Len(buf)),
         from |-> Slice(from, 0, e.start) \o [k \in 1..Len(replacement) |-> -1]
                  \o Slice(from, e.end, Len(from))]


\* ------------------------------------------------------------------------
\* Inputs
\* ------------------------------------------------------------------------

\* the most entities in one response of the classifier
MaxSpans == 2

\* the classifier labels only the first MaxSeqLen characters it is sent
MaxSeqLen == 3

\* The texts a request is made with: empty, blank, "AB", "BOB", "bob", "Lev",
\* "McD", " BOB", "ab cd", "Bob" and an ellipsis, "a@b.cc", "12345678",
\* "12-34-56 x".
Corpus ==
    {
      <<>>,
      <<" ">>,
      <<"A","B">>,
      <<"B","O","B">>,
      <<"b","o","b">>,
      <<"L","e","v">>,
      <<"M","c","D">>,
      <<" ","B","O","B">>,
      <<"a","b"," ","c","d">>,
      <<"B","o","b","U+2026">>,
      <<"a","@","b",".","c","c">>,
      <<"1","2","3","4","5","6","7","8">>,
      <<"1","2","-","3","4","-","5","6"," ","x">>
    }

\* the labels the classifier gives: "B-PER" and "MISC"
Labels == { <<"B","-">> \o PER, MISC }

\* a list element that is not a dict
NonDict == [dict |-> FALSE, label |-> <<>>, start |-> 0, end |-> 0, word |-> <<>>]

\* The entity records the classifier can return for the text it was sent:
\* any label on any span of the labelled prefix, the word being the text of
\* the span as the classifier saw it.
Items(sent) ==
    LET last == IF Len(sent) < MaxSeqLen THEN Len(sent) ELSE MaxSeqLen
    IN  { [dict |-> TRUE, label |-> l, start |-> s, end |-> e,
           word |-> Slice(sent, s, e)] :
            l \in Labels, s \in 0..last, e \in 0..last } \cup {NonDict}

Responses(sent) ==
    LET valid == { x \in Items(sent) : ~x.dict \/ x.start < x.end }
        lists == UNION { [1..n -> valid] : n \in 0..MaxSpans }
    IN  { [shape |-> sh, items |-> l] : sh \in {"list", "nested", "dict"}, l \in lists }
        \cup { [shape |-> sh, items |-> <<>>] : sh \in {"dict_no_entities", "scalar"} }

\* ------------------------------------------------------------------------
\* State
\* ------------------------------------------------------------------------

None == [some |-> FALSE, value |-> <<>>]

Some(v) == [some |-> TRUE, value |-> v]

VARIABLES
    pc,               \* where the request is: idle, querying, rewriting,
                      \* done, failed, warned
    entry,            \* the entry point of the request: "lib" is
                      \* DataAnonymizer.anonymize_text, "ui" the Anonymize button
    input_text,       \* the text the request was made with
    text,             \* the text the detectors and the rewrite work on
    processed_text,   \* the text sent to the classifier
    calls,            \* requests.post calls made
    response,         \* the shape of the response received, or "none"
    all_entities,     \* the merged entities, sorted
    next,             \* the position of the rewrite loop in all_entities
    anonymized_text,  \* the working buffer
    origin,           \* history: per character of the buffer, the offset of
                      \* text it is a copy of, or -1
    log,              \* history: per entity processed, the extent the loop
                      \* looked at and whether it replaced it
    returned,         \* what anonymize_text returned
    error,            \* the exception raised: none, Exception, ValueError,
                      \* IndexError
    session_state     \* st.session_state.anonymized_text

vars ==
    <<pc, entry, input_text, text, processed_text, calls, response,
      all_entities, next, anonymized_text, origin, log, returned, error,
      session_state>>

Init ==
    /\ pc = "idle"
    /\ entry = "none"
    /\ input_text = <<>>
    /\ text = <<>>
    /\ processed_text = <<>>
    /\ calls = 0
    /\ response = "none"
    /\ all_entities = <<>>
    /\ next = 0
    /\ anonymized_text = <<>>
    /\ origin = <<>>
    /\ log = <<>>
    /\ returned = None
    /\ error = "none"
    /\ session_state = None

\* ------------------------------------------------------------------------
\* Actions
\* ------------------------------------------------------------------------

\* DataAnonymizer.anonymize_text(t), up to the classifier call of _query_model
AnonymizeText ==
    /\ pc = "idle"
    /\ \E t \in Corpus :
          /\ entry' = "lib"
          /\ input_text' = t
          /\ text' = _normalize_text(t)
          /\ processed_text' = _preprocess_text(_normalize_text(t))
    /\ calls' = calls + 1
    /\ pc' = "querying"
    /\ UNCHANGED <<response, all_entities, next, anonymized_text, origin, log,
                   returned, error, session_state>>

\* app.py: the Anonymize button, with t in the text area, up to the
\* classifier call of _query_model
ClickAnonymize ==
    /\ pc = "idle"
    /\ \E t \in Corpus :
          /\ entry' = "ui"
          /\ input_text' = t
          /\ IF ~IsBlank(t)
             THEN /\ text' = t
                  /\ processed_text' = _preprocess_text(t)
                  /\ calls' = calls + 1
                  /\ pc' = "querying"
             ELSE /\ pc' = "warned"
                  /\ UNCHANGED <<text, processed_text, calls>>
    /\ UNCHANGED <<response, all_entities, next, anonymized_text, origin, log,
                   returned, error, session_state>>

\* anonymize_text: additional_entities
LibAdditional(t) == _detect_email(t) \o _detect_phone(t)

\* app.py: additional_entities
UiAdditional(t) == WithReplacement(_detect_email(t) \o _detect_phone(t))

\* additional_entities of the entry point
Additional(ep, t) == IF ep = "lib" THEN LibAdditional(t) ELSE UiAdditional(t)

\* all_entities, as each entry point builds and sorts it
Resolve(ep, ner_results, additional) ==
    IF ep = "lib"
    THEN SortByStartDesc(LibEntities(ner_results) \o additional)
    ELSE SortByStartDesc(UiEntities(ner_results) \o additional)

\* A fallback on a failed classification: the error is noted and the rewrite
\* goes on with the emails and phones alone.
ClassifierFails_Fallback ==
    /\ pc = "querying"
    /\ error' = "Exception"
    /\ pc' = "rewriting"
    /\ all_entities' = Resolve(entry, <<>>, Additional(entry, text))
    /\ next' = 1
    /\ anonymized_text' = text
    /\ origin' = [k \in 1..Len(text) |-> k - 1]
    /\ UNCHANGED <<entry, input_text, text, processed_text, calls, response,
                   log, returned, session_state>>

\* requests.post or raise_for_status raises a RequestException: _query_model
\* raises Exception, which anonymize_text lets through and app.py shows
ClassifierFails ==
    /\ pc = "querying"
    /\ pc' = "failed"
    /\ error' = "Exception"
    /\ UNCHANGED <<entry, input_text, text, processed_text, calls, response,
                   all_entities, next, anonymized_text, origin, log, returned,
                   session_state>>

\* The classifier answers: _query_model takes the entity list out of the
\* response or raises ValueError; the caller detects emails and phones,
\* picks the placeholders, merges and sorts, and enters the rewrite loop.
ClassifierResponds ==
    /\ pc = "querying"
    /\ \E additional \in {Additional(entry, text)} :
       \E result \in Responses(processed_text) :
          LET r == NormalizeResponse(result)
          IN  /\ response' = result.shape
              /\ IF r.raises
                 THEN /\ pc' = "failed"
                      /\ error' = "ValueError"
                      /\ UNCHANGED <<all_entities, next, anonymized_text, origin>>
                 ELSE /\ pc' = "rewriting"
                      /\ all_entities' = Resolve(entry, r.entities, additional)
                      /\ next' = 1
                      /\ anonymized_text' = text
                      /\ origin' = [k \in 1..Len(text) |-> k - 1]
                      /\ UNCHANGED error
    /\ UNCHANGED <<entry, input_text, text, processed_text, calls, log,
                   returned, session_state>>

\* What the history keeps of one iteration on buffer buf: the entity's
\* offsets, the extent [lo, hi) looked at, whether it was replaced, and
\* whether that extent held only characters of the original text.
LogEntry(e, step, from) ==
    [start |-> e.start, end |-> e.end, applied |-> step.applied,
     lo |-> step.lo, hi |-> step.hi,
     clean |-> \A k \in 1..Len(from) :
                  (step.lo < k /\ k <= step.hi) => from[k] # -1]

\* anonymize_text: one iteration of the rewrite loop
LibRewrite ==
    /\ pc = "rewriting"
    /\ entry = "lib"
    /\ next <= Len(all_entities)
    /\ LET e == all_entities[next]
       IN  IF LibIndexError(anonymized_text, e)
           THEN /\ pc' = "failed"
                /\ error' = "IndexError"
                /\ UNCHANGED <<next, anonymized_text, origin, log>>
           ELSE LET step == LibStep(anonymized_text, origin, e)
                IN  /\ anonymized_text' = step.text
                    /\ origin' = step.from
                    /\ log' = Append(log, LogEntry(e, step, origin))
                    /\ next' = next + 1
                    /\ UNCHANGED <<pc, error>>
    /\ UNCHANGED <<entry, input_text, text, processed_text, calls, response,
                   all_entities, returned, session_state>>

\* app.py: one iteration of the rewrite loop
UiRewrite ==
    /\ pc = "rewriting"
    /\ entry = "ui"
    /\ next <= Len(all_entities)
    /\ LET step == UiStep(anonymized_text, origin, all_entities[next])
       IN  /\ anonymized_text' = step.text
           /\ origin' = step.from
           /\ log' = Append(log, LogEntry(all_entities[next], step, origin))
    /\ next' = next + 1
    /\ UNCHANGED <<pc, entry, input_text, text, processed_text, calls, response,
                   all_entities, returned, error, session_state>>

\* anonymize_text: return anonymized_text
LibReturn ==
    /\ pc = "rewriting"
    /\ entry = "lib"
    /\ next > Len(all_entities)
    /\ returned' = Some(anonymized_text)
    /\ pc' = "done"
    /\ UNCHANGED <<entry, input_text, text, processed_text, calls, response,
                   all_entities, next, anonymized_text, origin, log, error,
                   session_state>>

\* app.py: st.session_state.anonymized_text = anonymized_text
UiStore ==
    /\ pc = "rewriting"
    /\ entry = "ui"
    /\ next > Len(all_entities)
    /\ session_state' = Some(anonymized_text)
    /\ pc' = "done"
    /\ UNCHANGED <<entry, input_text, text, processed_text, calls, response,
                   all_entities, next, anonymized_text, origin, log, returned,
                   error>>

Next ==
    \/ AnonymizeText
    \/ ClickAnonymize
    \/ ClassifierFails
    \/ ClassifierResponds
    \/ LibRewrite
    \/ UiRewrite
    \/ LibReturn
    \/ UiStore

Spec == Init /\ [][Next]_vars


\* ------------------------------------------------------------------------
\* Properties
\* ------------------------------------------------------------------------

\* two extents [lo, hi) share an offset
Overlap(a, b) == a.lo < b.hi /\ b.lo < a.hi

\* C1: no two applied replacement spans overlap: every offset is covered by
\* at most one extent whose substitution is performed, and no substitution
\* rewrites characters that an earlier one inserted as a placeholder.
C1_NoOverlap ==
    /\ \A a, b \in DOMAIN log :
          (a < b /\ log[a].applied /\ log[b].applied) => ~Overlap(log[a], log[b])
    /\ \A a \in DOMAIN log : log[a].applied => log[a].clean

\* the span [s, e) of t lies inside a maximal alphanumeric run longer than 1
InsideRun(t, s, e) ==
    /\ 0 <= s /\ s < e /\ e <= Len(t)
    /\ IsAlnum(Slice(t, s, e))
    /\ ExpandRight(t, e) - ExpandLeft(t, s) > 1

\* C2: whole-word expansion: for every span that anonymize_text processes and
\* that lies inside a maximal alphanumeric run of the text of length greater
\* than 1, that run has been replaced as a whole by then, and a substitution
\* performed for the span replaces exactly that run.
C2_WholeWord ==
    entry = "lib" =>
        \A k \in DOMAIN log :
            LET lo == ExpandLeft(text, log[k].start)
                hi == ExpandRight(text, log[k].end)
            IN  InsideRun(text, log[k].start, log[k].end) =>
                    /\ log[k].applied => (log[k].lo = lo /\ log[k].hi = hi)
                    /\ \E j \in 1..k :
                          log[j].applied /\ log[j].lo = lo /\ log[j].hi = hi

\* no entity other than a repetition of all_entities[k] overlaps it
Alone(k) ==
    \A j \in DOMAIN all_entities :
        LET a == all_entities[j]
            b == all_entities[k]
        IN  (a.start < b.end /\ b.start < a.end) =>
                (a.entity = b.entity /\ a.start = b.start /\ a.end = b.end)

\* C3: when anonymize_text returns, every detected email and phone that no
\* other span overlaps has been replaced, as a whole and by its own
\* placeholder, and none of its characters is left in the returned text.
C3_EmailPhoneReplaced ==
    (pc = "done" /\ entry = "lib") =>
        \A k \in DOMAIN all_entities :
            LET e == all_entities[k]
            IN  (e.entity \in {EMAIL, PHONE} /\ Alone(k)) =>
                    /\ \E j \in DOMAIN log :
                          /\ log[j].start = e.start /\ log[j].end = e.end
                          /\ log[j].applied
                          /\ log[j].lo = e.start /\ log[j].hi = e.end
                    /\ \A n \in DOMAIN origin :
                          ~(e.start <= origin[n] /\ origin[n] < e.end)

\* C4: the placeholder of a PER span follows the casing of the original text
\* at the span's offsets: when that text is all-uppercase alphabetic and
\* longer than 2 characters, anonymize_text puts "[PERSON]".
C4_OriginalCasing ==
    entry = "lib" =>
        \A k \in DOMAIN all_entities :
            LET e == all_entities[k]
                surface == Slice(text, e.start, e.end)
            IN  (e.entity = PER /\ IsUpper(surface) /\ IsAlpha(surface)
                 /\ Len(surface) > 2) => ReplacementOf(e) = PH_PERSON

\* the placeholder the PERSON law gives a surface
PersonLaw(surface) ==
    CASE IsUpper(surface) /\ IsAlpha(surface) -> PH_PERSON
      [] IsLower(surface) -> PH_person
      [] IsTitle(surface) /\ is_surname(surface) -> PH_SURNAME
      [] IsTitle(surface) -> PH_Person
      [] OTHER -> PH_PERSON

\* C5: case-preserving placeholder law for PERSON: every PER entity whose
\* surface passes the filter carries the placeholder the law gives it,
\* whichever entry point resolved it.
C5_PersonLaw ==
    \A k \in DOMAIN all_entities :
        LET e == all_entities[k]
        IN  (e.entity = PER /\ ~SkipWord(e.word)) =>
                ReplacementOf(e) = PersonLaw(e.word)

\* C6: a failed classification aborts the request: once the classifier call
\* has failed the request has ended (nothing more happens), the classifier
\* was called exactly once, no rewrite was begun and no anonymized text was
\* returned or stored.
C6_FailureAborts ==
    error = "Exception" =>
        /\ pc = "failed"
        /\ ~ENABLED Next
        /\ calls = 1
        /\ returned = None
        /\ session_state = None
        /\ log = <<>>
        /\ anonymized_text = <<>>

\* C6 happens: the classification of a text holding an email has failed
C6_Witness ==
    /\ pc = "failed"
    /\ error = "Exception"
    /\ _detect_email(text) # <<>>

\* C7: the adapter takes exactly three response shapes: a response of any
\* other shape ends in an error, and a response of one of the three does not
\* raise the shape error.
C7_ShapesRejected ==
    /\ response \in {"dict_no_entities", "scalar"} =>
          (pc = "failed" /\ error = "ValueError")
    /\ response \in {"list", "nested", "dict"} => error # "ValueError"

\* C8: a request with an empty or whitespace-only text never calls the
\* classifier, and ends with nothing rewritten.
C8_BlankShortCircuits ==
    (entry # "none" /\ IsBlank(input_text)) =>
        /\ calls = 0
        /\ pc = "warned"
        /\ log = <<>>

\* C9: when a span is about to be processed, the working buffer holds at the
\* span's offsets the characters the original text holds there.
C9_OffsetsValid ==
    (pc = "rewriting" /\ next <= Len(all_entities)) =>
        LET e == all_entities[next]
        IN  Slice(anonymized_text, e.start, e.end) = Slice(text, e.start, e.end)

\* offset p of the text is inside the whole-word extent of a detected span
Covered(p) ==
    \E k \in DOMAIN all_entities :
        /\ ExpandLeft(text, all_entities[k].start) <= p
        /\ p < ExpandRight(text, all_entities[k].end)

\* C10: frame property of the rewrite: every character of the text outside
\* the whole-word extent of every detected span is in the output, unchanged,
\* and the characters kept are in their original order.
C10_Frame ==
    pc = "done" =>
        /\ \A p \in 0..(Len(text) - 1) :
              ~Covered(p) =>
                  \E n \in DOMAIN origin :
                      origin[n] = p /\ anonymized_text[n] = text[p + 1]
        /\ \A m, n \in DOMAIN origin :
              (m < n /\ origin[m] # -1 /\ origin[n] # -1) => origin[m] < origin[n]

\* a and b have the same length and, at every index, the same character up
\* to letter case
SameUpToCase(a, b) ==
    /\ Len(a) = Len(b)
    /\ \A i \in 1..Len(a) : ToLower(a[i]) = ToLower(b[i])

\* C11: the preprocessing pass changes only letter case: once a request with
\* a text that is not blank has called the classifier, the text it sent has
\* the same length as the text the preprocessing was given and, at every
\* index, the same character up to case, so an offset into the one indexes
\* the same character of the other.
C11_CaseOnly ==
    (calls > 0 /\ ~IsBlank(text)) => SameUpToCase(processed_text, text)

\* every merged entity satisfies 0 <= start < end <= len(text)
ValidSpans ==
    \A k \in DOMAIN all_entities :
        /\ 0 <= all_entities[k].start
        /\ all_entities[k].start < all_entities[k].end
        /\ all_entities[k].end <= Len(text)

\* C12: once the classifier has answered with a response that _query_model
\* takes, and every span satisfies 0 <= start < end <= len(text), the rewrite
\* loop of anonymize_text never reads the buffer outside its bounds: the
\* request raises nothing and does not end in a failure.
C12_RewriteCompletes ==
    (/\ entry = "lib"
     /\ response \in {"list", "nested", "dict", "dict_no_entities"}
     /\ ValidSpans)
        => (pc # "failed" /\ error = "none")


====
